---- MODULE Spec2Model ----
(***************************************************************************)
(* SoraStitcher.py as a state machine: one invocation of main() walks      *)
(* through folder check, tool check, clip enumeration, start resolution,   *)
(* shuffle, size resolution and then either the --fast direct concat or    *)
(* the normalize loop followed by the concat.  External tools (ffprobe,    *)
(* the ffmpeg transcoder, the ffmpeg concat joiner) are nondeterministic   *)
(* in their exit status.                                                   *)
(***************************************************************************)
EXTENDS Integers, Sequences, FiniteSets, TLC

\* ----------------------------------------------------------------- bounds
\* Clip files that may be in the folder are named 1.<ext> .. MaxStem.<ext>.
MaxStem == 3
\* Seeds given with --seed are 0..MaxSeed.
MaxSeed == 1
\* The generator of the random module has states 0..RngMod-1.
RngMod == 4
\* A failing tool exits with a status in 1..MaxExit.
MaxExit == 2
\* main() is called at most MaxRuns times in one process (SpecRepeat).
MaxRuns == 2

\* --------------------------------------------------------- optional values
\* argparse default=None is <<>>, a supplied integer v is <<v>>.
None == <<>>
Some(v) == <<v>>
\* Python truthiness of an Optional[int]: None and 0 are falsy.
Truthy(o) == o # None /\ o[1] # 0
\* Python `a or b` on an Optional[int] a and an int b.
Or(o, b) == IF Truthy(o) THEN o[1] ELSE b

\* ------------------------------------------------------------ file names
Name(stem, suffix) == [stem |-> stem, suffix |-> suffix]
\* str.lower() on the suffixes that occur.
Lower(suffix) == IF suffix = ".MP4" THEN ".mp4" ELSE suffix
\* Character order of the suffixes: "M" < "m" < "t".
SuffixRank(suffix) == CASE suffix = ".MP4" -> 0 [] suffix = ".mp4" -> 1 [] OTHER -> 2

\* A resolved path: the directory it lies in and its file name.
\* Directories: "folder" (--folder), "parent" (its parent), "cwd" (the
\* working directory when it is not the folder), "td" (the temporary
\* directory of the normal path), "tmp" (the system temporary directory).
Path(dir, name) == [dir |-> dir, stem |-> name.stem, suffix |-> name.suffix]
NameOf(p) == Name(p.stem, p.suffix)
DirRank(d) == CASE d = "cwd" -> 0 [] d = "folder" -> 1 [] d = "parent" -> 2
                [] d = "td" -> 3 [] OTHER -> 4
\* Path.__lt__: by directory, then by name.
PathLess(p, q) ==
    \/ DirRank(p.dir) < DirRank(q.dir)
    \/ /\ p.dir = q.dir
       /\ \/ p.stem < q.stem
          \/ p.stem = q.stem /\ SuffixRank(p.suffix) < SuffixRank(q.suffix)

\* The names a folder can hold.  ClipName(1) carries an upper-case suffix.
ClipName(s) == Name(s, IF s = 1 THEN ".MP4" ELSE ".mp4")
NotesName == Name(0, ".txt")
SubdirName == Name(0, ".mp4")
OutName == Name(MaxStem + 1, ".mp4")
File(name) == [name |-> name, kind |-> "file"]
Dir(name) == [name |-> name, kind |-> "dir"]
\* Entries every modelled folder holds: a text file and a subdirectory
\* whose name ends in .mp4.
FixedEntries == {File(NotesName), Dir(SubdirName)}
AllFolders == {FixedEntries \cup {File(ClipName(s)) : s \in S} : S \in SUBSET (1..MaxStem)}
\* The one file of the parent directory.
ParentNames == {Name(1, ".mp4")}

\* ------------------------------------------------------------- sequences
Range(s) == {s[i] : i \in DOMAIN s}
NoDup(s) == \A i, j \in DOMAIN s : i # j => s[i] # s[j]
Swap(s, i, j) == [s EXCEPT ![i] = s[j], ![j] = s[i]]

RECURSIVE Perms(_)
\* Every order in which a directory listing can return the entries S.
Perms(S) == IF S = {} THEN {<<>>}
            ELSE UNION {{<<x>> \o p : p \in Perms(S \ {x})} : x \in S}

\* ------------------------------------------------------------------ state
VARIABLES
    folderIsDir,  \* --folder names an existing directory
    entries,      \* the entries of the folder: [name, kind]
    cwdIsFolder,  \* the working directory is the folder (--folder .)
    cwdFiles,     \* names of the files of the working directory (when it is not the folder)
    rng,          \* state of the process-wide generator of the random module
    invocations,  \* number of main() calls started in this process
    prev,         \* <<>> or <<r>>, r what the previous main() call had: seed, clips, start,
                  \* play order, output, and whether it succeeded
    pc,           \* position of the current main() call
    args,         \* parsed command line
    clips, start_path, ordered, size, output,
    probes,       \* probe_size calls: [path, kind of ffprobe outcome, wh returned]
    td,           \* the TemporaryDirectory: "none", "exists", "removed"
    tdFiles,      \* files inside the temporary directory
    norm_paths,
    manifests,    \* manifest files that exist: [path, lines]
    joining,      \* the running joiner: <<[manifest, lines, output]>> or <<>>
    transcodes,   \* finished transcoder runs: [src, dst, rc]
    joins,        \* finished joiner runs: [manifest, lines, output, rc, wrote]
    exitCode,     \* exit status of the finished call: <<>> while running
    failure,      \* why the call failed: "" while running or on success
    path_texts,   \* the file_list of concat_via_list, each path as its characters
    manifest_text,\* the characters written to the manifest
    joiner_read   \* what the joiner read from the manifest: [ok, files]

text == <<path_texts, manifest_text, joiner_read>>
world == <<folderIsDir, entries, cwdIsFolder, cwdFiles, rng, invocations, prev, text>>
call == <<args, clips, start_path, ordered, size, output, probes, td, tdFiles,
          norm_paths, manifests, joining, transcodes, joins, exitCode, failure>>
vars == <<world, pc, call>>

NoPath == Path("", Name(0, ""))
NoArgs == [start |-> [up |-> FALSE, name |-> Name(0, "")], seed |-> None, fast |-> FALSE,
           width |-> None, height |-> None, output |-> Name(0, "")]

\* The per-call state before main() has run.
Fresh ==
    /\ pc = "parse"
    /\ args = NoArgs
    /\ clips = <<>> /\ start_path = NoPath /\ ordered = <<>>
    /\ size = <<0, 0>> /\ output = NoPath
    /\ probes = <<>>
    /\ td = "none" /\ tdFiles = {} /\ norm_paths = <<>>
    /\ manifests = {} /\ joining = <<>>
    /\ transcodes = <<>> /\ joins = <<>>
    /\ exitCode = None /\ failure = ""

NoRead == [ok |-> FALSE, files |-> <<>>]
NoText ==
    /\ path_texts = <<>>
    /\ manifest_text = <<>>
    /\ joiner_read = NoRead

\* The process before main() is called: the folder is one of Folders, the
\* generator is in whatever state the interpreter seeded it to.
InitOf(Folders, Cwds) ==
    /\ folderIsDir \in BOOLEAN
    /\ entries \in (IF folderIsDir THEN Folders ELSE {{}})
    /\ cwdIsFolder \in (IF folderIsDir THEN Cwds ELSE {FALSE})
    /\ cwdFiles = {}
    /\ rng \in 0..(RngMod - 1)
    /\ invocations = 1
    /\ prev = <<>>
    /\ NoText
    /\ Fresh

\* ------------------------------------------------- filesystem predicates
\* Path.exists()
Exists(p) ==
    CASE p.dir = "folder" -> folderIsDir /\ \E e \in entries : e.name = NameOf(p)
      [] p.dir = "parent" -> NameOf(p) \in ParentNames
      [] p.dir = "cwd" -> NameOf(p) \in cwdFiles
      [] p.dir = "td" -> p \in tdFiles
      [] OTHER -> \E m \in manifests : m.path = p

\* p.suffix.lower() == ".mp4" and p.is_file(), on a directory entry
\* (IsClipAnyKind: without the is_file() test.)
IsClipAnyKind(e) == Lower(e.name.suffix) = ".mp4"

IsClip(e) == Lower(e.name.suffix) = ".mp4" /\ e.kind = "file"

\* (folder / args.start).resolve()
ResolveStartArg(start) == Path(IF start.up THEN "parent" ELSE "folder", start.name)

\* Path(args.output).expanduser().resolve()
ResolveOutput(name) == Path(IF cwdIsFolder THEN "folder" ELSE "cwd", name)

\* The file system after a tool has written the file p.
WriteEntries(p) ==
    IF p.dir = "folder"
    THEN {e \in entries : e.name # NameOf(p)} \cup {File(NameOf(p))}
    ELSE entries
WriteCwd(p) == IF p.dir = "cwd" THEN cwdFiles \cup {NameOf(p)} ELSE cwdFiles

\* ------------------------------------------------------------ sorted()
RECURSIVE Insert(_, _)
Insert(p, s) ==
    IF s = <<>> THEN <<p>>
    ELSE IF PathLess(p, Head(s)) THEN <<p>> \o s
    ELSE <<Head(s)>> \o Insert(p, Tail(s))

\* sorted() left out: the clips stay in listing order.
unsorted(s) == s

RECURSIVE sorted(_)
sorted(s) == IF s = <<>> THEN <<>> ELSE Insert(Head(s), sorted(Tail(s)))

\* ------------------------------------------------------- random module
\* random.seed(n): the generator state is a function of n alone.
SeedState(n) == (3 * n + 1) % RngMod
\* One step of the generator.
NextRng(g) == (5 * g + 3) % RngMod
\* random.shuffle(x), from index i down: j = randbelow(i + 1); swap.
RECURSIVE ShuffleFrom(_, _, _)
ShuffleFrom(x, i, g) ==
    IF i < 2 THEN [x |-> x, g |-> g]
    ELSE LET g1 == NextRng(g)
             j == (g1 % i) + 1
         IN ShuffleFrom(Swap(x, i, j), i - 1, g1)
shuffle(x, g) == ShuffleFrom(x, Len(x), g)

\* --------------------------------------------------------- probe_size()
\* What one ffprobe run can do.  raised: subprocess.run raised (the tool is
\* gone, or check=True saw a non-zero exit).  fields: stdout.strip() cut at
\* every "x"; a field is <<v>> when int() accepts it and <<>> when not.
ProbeOk == [kind |-> "ok", raised |-> FALSE, fields |-> <<Some(1280), Some(720)>>]
ProbeGone == [kind |-> "notfound", raised |-> TRUE, fields |-> <<>>]
ProbeNonZero == [kind |-> "nonzero", raised |-> TRUE, fields |-> <<>>]
ProbeNoStream == [kind |-> "nostream", raised |-> FALSE, fields |-> <<None>>]
ProbeNotInt == [kind |-> "notint", raised |-> FALSE, fields |-> <<Some(1280), None>>]
ProbeExtra == [kind |-> "extra", raised |-> FALSE, fields |-> <<Some(1280), Some(720), None>>]
AllProbes == {ProbeOk, ProbeGone, ProbeNonZero, ProbeNoStream, ProbeNotInt, ProbeExtra}
ProbeFailed(kind) == kind # "ok"

\* (probe_size_unguarded: no fallback, an unknown size is 0 x 0)
probe_size_unguarded(o) ==
    IF ~o.raised /\ Len(o.fields) = 2 /\ o.fields[1] # None /\ o.fields[2] # None
    THEN <<o.fields[1][1], o.fields[2][1]>>
    ELSE <<0, 0>>

probe_size(o) ==
    IF o.raised THEN <<1920, 1080>>
    ELSE IF Len(o.fields) >= 2                               \* "x" in s
         THEN IF Len(o.fields) = 2 /\ o.fields[1] # None /\ o.fields[2] # None
              THEN <<o.fields[1][1], o.fields[2][1]>>
              ELSE <<1920, 1080>>                            \* ValueError, swallowed
         ELSE <<1920, 1080>>

\* ------------------------------------------------------------- main()
\* The ways main() ends.  A return and a sys.exit() both end the call with
\* the given status.  (ReturnOne: every failure ends with status 1.)
ReturnOne(code, why) ==
    /\ pc' = IF code = 0 THEN "done" ELSE "failed"
    /\ exitCode' = Some(IF code = 0 THEN 0 ELSE 1)
    /\ failure' = why

Return(code, why) ==
    /\ pc' = IF code = 0 THEN "done" ELSE "failed"
    /\ exitCode' = Some(code)
    /\ failure' = why

\* lines 161-174: parse_args
ParseArgs(ArgSpace) ==
    /\ pc = "parse"
    /\ args' \in ArgSpace
    /\ pc' = "folder"
    /\ UNCHANGED <<world, clips, start_path, ordered, size, output, probes, td, tdFiles,
                   norm_paths, manifests, joining, transcodes, joins, exitCode, failure>>

\* lines 176-179
CheckFolder ==
    /\ pc = "folder"
    /\ IF folderIsDir
       THEN pc' = "tools" /\ UNCHANGED <<exitCode, failure>>
       ELSE Return(2, "NotFoundError")
    /\ UNCHANGED <<world, args, clips, start_path, ordered, size, output, probes, td,
                   tdFiles, norm_paths, manifests, joining, transcodes, joins>>

\* line 181, check_ffmpeg(): the first of ffmpeg, ffprobe that does not run
\* ends the process with status 1.
check_ffmpeg ==
    /\ pc = "tools"
    /\ \E missing \in {"", "ffmpeg", "ffprobe"} :
          IF missing = ""
          THEN pc' = "enumerate" /\ UNCHANGED <<exitCode, failure>>
          ELSE Return(1, "ToolUnavailableError:" \o missing)
    /\ UNCHANGED <<world, args, clips, start_path, ordered, size, output, probes, td,
                   tdFiles, norm_paths, manifests, joining, transcodes, joins>>

\* lines 183-186: folder.iterdir() lists the entries in any order and the
\* comprehension keeps, in that order, those that pass the filter: found is
\* any order of the entries that pass it.
EnumerateClips ==
    /\ pc = "enumerate"
    /\ \E found \in Perms({e \in entries : IsClip(e)}) :
          LET paths == [i \in DOMAIN found |-> Path("folder", found[i].name)]
          IN clips' = sorted(paths)
    /\ IF clips' = <<>>
       THEN Return(3, "EmptyInputError")
       ELSE pc' = "start" /\ UNCHANGED <<exitCode, failure>>
    /\ UNCHANGED <<world, args, start_path, ordered, size, output, probes, td,
                   tdFiles, norm_paths, manifests, joining, transcodes, joins>>

\* lines 188-195
ResolveStart ==
    /\ pc = "start"
    /\ LET resolved == ResolveStartArg(args.start)
           candidates == SelectSeq(clips, LAMBDA p : ~args.start.up /\ NameOf(p) = args.start.name)
       IN IF Exists(resolved)
          THEN start_path' = resolved /\ pc' = "plan" /\ UNCHANGED <<exitCode, failure>>
          ELSE IF candidates # <<>>
               THEN start_path' = candidates[1] /\ pc' = "plan"
                    /\ UNCHANGED <<exitCode, failure>>
               ELSE start_path' = resolved /\ Return(4, "StartNotFoundError")
    /\ UNCHANGED <<world, args, clips, ordered, size, output, probes, td,
                   tdFiles, norm_paths, manifests, joining, transcodes, joins>>

\* lines 197-201
PlanOrder ==
    /\ pc = "plan"
    /\ LET others == SelectSeq(clips, LAMBDA p : p # start_path)
           g == IF args.seed # None THEN SeedState(args.seed[1]) ELSE rng
           r == shuffle(others, g)
       IN /\ ordered' = <<start_path>> \o r.x
          /\ rng' = r.g
    /\ pc' = "size"
    /\ UNCHANGED <<text, folderIsDir, entries, cwdIsFolder, cwdFiles, invocations, prev,
                   args, clips, start_path, size, output, probes, td, tdFiles,
                   norm_paths, manifests, joining, transcodes, joins, exitCode, failure>>

\* lines 214, 223: --fast takes the direct concat, else the normalize pass
\* (BranchAgain: the size step is taken once more.)
BranchAgain(fast) == "size"

Branch(fast) == IF fast THEN "fast" ELSE "mktemp"

\* lines 205-212: the target size, then the output path
ResolveSize(ProbeSpace) ==
    /\ pc = "size"
    /\ IF Truthy(args.width) /\ Truthy(args.height)
       THEN /\ size' = <<args.width[1], args.height[1]>>
            /\ UNCHANGED probes
       ELSE \E o \in ProbeSpace :
              LET wh == probe_size(o)
              IN /\ size' = <<Or(args.width, wh[1]), Or(args.height, wh[2])>>
                 /\ probes' = Append(probes, [path |-> start_path, kind |-> o.kind, wh |-> wh])
    /\ output' = ResolveOutput(args.output)
    /\ pc' = Branch(args.fast)
    /\ UNCHANGED <<world, args, clips, start_path, ordered, td, tdFiles,
                   norm_paths, manifests, joining, transcodes, joins, exitCode, failure>>

\* run() without check=True (runUnchecked): a non-zero exit status is ignored.
\* run(): subprocess.run(cmd, check=True); a non-zero exit status becomes
\* sys.exit(status), a zero one returns.
runUnchecked(rc) == "returned"
run(rc) == IF rc = 0 THEN "returned" ELSE "exit"

\* TemporaryDirectory.__exit__ (line 223): the directory and its files go,
\* whether the block returned or raised.  (TempDirKeptOnExit: removal only
\* at the end of the block, without the context manager.)
TempDirKeptOnExit(rc) ==
    IF rc = 0 THEN [td |-> "removed", files |-> {}] ELSE [td |-> "exists", files |-> tdFiles]
TempDirExit(rc) == [td |-> "removed", files |-> {}]

\* The temporary directory when main() is left with status rc: line 223
\* is not reached with --fast.
LeaveMain(rc) ==
    IF args.fast
    THEN UNCHANGED <<td, tdFiles>>
    ELSE td' = TempDirExit(rc).td /\ tdFiles' = TempDirExit(rc).files

\* lines 134-152 of concat_via_list.  NamedTemporaryFile(delete=False)
\* creates the manifest, tf.write adds one line per path, then the joiner
\* is started on it.  tf.write raises when the text encoding of the file
\* cannot encode a path (a file name with bytes that are not UTF-8 reaches
\* it as lone surrogates) or when the write itself fails; lines 134-137 are
\* outside the try of line 138, so the file stays, holding the n lines
\* written so far, and the exception leaves main(): --fast catches only
\* SystemExit (line 220).  The interpreter ends with status 1.
ConcatStart(file_list) ==
    LET list_path == Path("tmp", Name(invocations, ".txt"))
    IN \/ /\ manifests' = manifests \cup {[path |-> list_path, lines |-> file_list]}
          /\ joining' = <<[manifest |-> list_path, lines |-> file_list, output |-> output]>>
          /\ pc' = "joining"
          /\ UNCHANGED <<td, tdFiles, exitCode, failure>>
       \/ \E n \in 0..(Len(file_list) - 1) :
             /\ manifests' = manifests \cup {[path |-> list_path,
                                               lines |-> SubSeq(file_list, 1, n)]}
             /\ LeaveMain(1)
             /\ Return(1, "ManifestWriteError")
             /\ UNCHANGED joining

\* lines 153-157 of concat_via_list: finally: list_path.unlink()
\* The unlink is taken to succeed; were it to raise, line 156 would swallow
\* the exception and leave the file.
Unlink(ms, list_path, rc) == {m \in ms : m.path # list_path}

\* lines 214-217: FAST mode, concat_via_list(ordered, output)
FastConcat ==
    /\ pc = "fast"
    /\ ConcatStart(ordered)
    /\ UNCHANGED <<world, args, clips, start_path, ordered, size, output, probes,
                   norm_paths, transcodes, joins>>

\* lines 223-226
MakeTempDir ==
    /\ pc = "mktemp"
    /\ td' = "exists"
    /\ tdFiles' = {}
    /\ norm_paths' = <<>>
    /\ pc' = "normalize"
    /\ UNCHANGED <<world, args, clips, start_path, ordered, size, output, probes,
                   manifests, joining, transcodes, joins, exitCode, failure>>

\* line 227: the for loop has run over all of ordered (LoopDoneEarly: the
\* loop stops one clip short)
LoopDoneEarly == Len(norm_paths) + 1 >= Len(ordered)
LoopDone == Len(norm_paths) = Len(ordered)

\* lines 227-239: one iteration of the loop, normalize_clip(src, dst) with
\* the transcoder exiting with rc
NormalizeClip ==
    /\ pc = "normalize"
    /\ ~LoopDone
    /\ LET idx == Len(norm_paths)
           src == ordered[idx + 1]
           dst == Path("td", Name(idx, ".mp4"))
       IN \E rc \in 0..MaxExit :
            /\ transcodes' = Append(transcodes, [src |-> src, dst |-> dst, rc |-> rc])
            /\ IF run(rc) = "returned"
               THEN /\ tdFiles' = tdFiles \cup {dst}
                    /\ norm_paths' = Append(norm_paths, dst)
                    /\ UNCHANGED <<pc, td, exitCode, failure>>
               ELSE /\ td' = TempDirExit(rc).td
                    /\ tdFiles' = TempDirExit(rc).files
                    /\ Return(rc, "TranscodeError")
                    /\ UNCHANGED norm_paths
    /\ UNCHANGED <<world, args, clips, start_path, ordered, size, output, probes,
                   manifests, joining, joins>>

\* lines 241-242: concat_via_list(norm_paths, output)
Concatenate ==
    /\ pc = "normalize"
    /\ LoopDone
    /\ ConcatStart(norm_paths)
    /\ UNCHANGED <<world, args, clips, start_path, ordered, size, output, probes,
                   norm_paths, transcodes, joins>>

\* The joiner exits with rc: the rest of concat_via_list (lines 152-157)
\* and of main (lines 218-221 in FAST mode, 243-245 otherwise).  A joiner
\* that fails may or may not have created the output file.
JoinerExits ==
    /\ pc = "joining"
    /\ LET j == joining[1]
       IN \E rc \in 0..MaxExit, wrote \in BOOLEAN :
            /\ rc = 0 => wrote
            /\ joins' = Append(joins, [manifest |-> j.manifest, lines |-> j.lines,
                                       output |-> j.output, rc |-> rc, wrote |-> wrote])
            /\ entries' = IF wrote THEN WriteEntries(j.output) ELSE entries
            /\ cwdFiles' = IF wrote THEN WriteCwd(j.output) ELSE cwdFiles
            /\ manifests' = Unlink(manifests, j.manifest, rc)
            /\ joining' = <<>>
            /\ LeaveMain(rc)
            /\ IF run(rc) = "returned"
               THEN Return(0, "")
               ELSE Return(rc, "ConcatError")
    /\ UNCHANGED <<text, folderIsDir, cwdIsFolder, rng, invocations, prev, args, clips,
                   start_path, ordered, size, output, probes, norm_paths, transcodes>>

\* main() is called again in the same process.
Reinvoke ==
    /\ pc \in {"done", "failed"}
    /\ invocations < MaxRuns
    /\ invocations' = invocations + 1
    /\ prev' = <<[seed |-> args.seed, clips |-> clips, start |-> start_path,
                  ordered |-> ordered, output |-> output, ok |-> pc = "done"]>>
    /\ pc' = "parse"
    /\ args' = NoArgs
    /\ clips' = <<>> /\ start_path' = NoPath /\ ordered' = <<>>
    /\ size' = <<0, 0>> /\ output' = NoPath
    /\ probes' = <<>>
    /\ td' = "none" /\ tdFiles' = {} /\ norm_paths' = <<>>
    /\ manifests' = {} /\ joining' = <<>>
    /\ transcodes' = <<>> /\ joins' = <<>>
    /\ exitCode' = None /\ failure' = ""
    /\ UNCHANGED <<text, folderIsDir, entries, cwdIsFolder, cwdFiles, rng>>

\* ------------------------------------------------------ command lines
StartArgs ==
    {[up |-> FALSE, name |-> n] : n \in {ClipName(s) : s \in 1..MaxStem} \cup {NotesName, SubdirName}}
    \cup {[up |-> TRUE, name |-> n] : n \in ParentNames}
SeedArgs == {None} \cup {Some(n) : n \in 0..MaxSeed}
SizeArgs == {None, Some(0), Some(640)}
OutputArgs == {OutName, ClipName(1)}

\* Command lines of the pipeline: every start, seed, mode and output; the
\* size is left to the probe.
PipelineArgs ==
    [start : StartArgs, seed : SeedArgs, fast : BOOLEAN, width : {None}, height : {None},
     output : OutputArgs]

\* ------------------------------------------------------ specifications
Init == InitOf(AllFolders, BOOLEAN)

Next ==
    \/ ParseArgs(PipelineArgs)
    \/ CheckFolder
    \/ check_ffmpeg
    \/ EnumerateClips
    \/ ResolveStart
    \/ PlanOrder
    \/ ResolveSize({ProbeOk, ProbeNonZero})
    \/ FastConcat
    \/ MakeTempDir
    \/ NormalizeClip
    \/ Concatenate
    \/ JoinerExits

Spec == Init /\ [][Next]_vars

\* Size resolution: one folder, one start, every --width/--height pair and
\* every behaviour of ffprobe.
FullFolder == FixedEntries \cup {File(ClipName(s)) : s \in 1..MaxStem}
ProfileArgs ==
    [start : {[up |-> FALSE, name |-> ClipName(2)]}, seed : {Some(0)}, fast : BOOLEAN,
     width : SizeArgs, height : SizeArgs, output : {OutName}]

InitProfile == InitOf({FullFolder}, {FALSE})

NextProfile ==
    \/ ParseArgs(ProfileArgs)
    \/ CheckFolder
    \/ check_ffmpeg
    \/ EnumerateClips
    \/ ResolveStart
    \/ PlanOrder
    \/ ResolveSize(AllProbes)
    \/ FastConcat
    \/ MakeTempDir
    \/ NormalizeClip
    \/ Concatenate
    \/ JoinerExits

SpecProfile == InitProfile /\ [][NextProfile]_vars

\* Repeated calls of main() in one process, over a folder that holds every
\* clip or all but the last.
RepeatArgs ==
    [start : {[up |-> FALSE, name |-> n] : n \in {ClipName(1), ClipName(2), NotesName}},
     seed : SeedArgs, fast : BOOLEAN, width : {None}, height : {None}, output : {OutName}]

InitRepeat == InitOf({FullFolder, FullFolder \ {File(ClipName(MaxStem))}}, {FALSE})

NextRepeat ==
    \/ ParseArgs(RepeatArgs)
    \/ CheckFolder
    \/ check_ffmpeg
    \/ EnumerateClips
    \/ ResolveStart
    \/ PlanOrder
    \/ ResolveSize({ProbeOk})
    \/ FastConcat
    \/ MakeTempDir
    \/ NormalizeClip
    \/ Concatenate
    \/ JoinerExits
    \/ Reinvoke

SpecRepeat == InitRepeat /\ [][NextRepeat]_vars

\* ------------------------------------------------------------ properties
\* Positions of main().
Ended == pc \in {"done", "failed"}
\* The play order has been built (line 201).
Planned == ordered # <<>>
\* The joiner has been started, and perhaps has exited.
JoinerCalls == Len(joins) + Len(joining)
ToolsUsed == probes # <<>> \/ transcodes # <<>> \/ JoinerCalls > 0

\* C1: once the play order is built, it is as long as the list of enumerated
\* clips, starts with the starting clip, which is one of the enumerated
\* clips, and its rest is a permutation of the other enumerated clips.
C1_PlayOrderIsPermutation ==
    Planned =>
        /\ Len(ordered) = Len(clips)
        /\ ordered[1] = start_path
        /\ start_path \in Range(clips)
        /\ NoDup(ordered)
        /\ Range(Tail(ordered)) = Range(clips) \ {start_path}

\* C2: when --start does not resolve to an enumerated clip, the call ends
\* with status 4 at the start resolution, no tool has been run and no
\* output written.
C2_StartNotFoundFails ==
    (/\ pc \notin {"parse", "folder", "tools", "enumerate", "start"}
     /\ clips # <<>>
     /\ ResolveStartArg(args.start) \notin Range(clips))
    => (pc = "failed" /\ exitCode = Some(4) /\ ~ToolsUsed /\ ~Planned)

\* C3: two calls of main() with the same supplied seed, the same set of
\* enumerated clips and the same start build the same play order, whatever
\* the order in which the folder listed its entries in either call.
C3_SameSeedSameOrder ==
    (/\ prev # <<>>
     /\ Planned
     /\ args.seed # None
     /\ prev[1].ordered # <<>>
     /\ prev[1].seed = args.seed
     /\ Range(prev[1].clips) = Range(clips)
     /\ prev[1].start = start_path)
    => ordered = prev[1].ordered

C3_Witness ==
    /\ prev # <<>> /\ Planned
    /\ args.seed # None /\ prev[1].seed = args.seed
    /\ Range(prev[1].clips) = Range(clips) /\ prev[1].start = start_path
    /\ Len(ordered) >= 3
    /\ ordered = prev[1].ordered

\* C4: a transcoder run that fails is the last one: the call has failed
\* with the status of that run, the clips before it were normalized and
\* none after it, and the joiner was never started, so nothing was written
\* to the output.
C4_TranscoderFailureAborts ==
    \A k \in DOMAIN transcodes :
        transcodes[k].rc # 0 =>
            /\ pc = "failed"
            /\ exitCode = Some(transcodes[k].rc)
            /\ k = Len(transcodes)
            /\ transcodes[k].src = ordered[k]
            /\ Len(norm_paths) = k - 1
            /\ JoinerCalls = 0
            /\ manifests = {}

C4_Witness ==
    /\ pc = "failed"
    /\ Len(ordered) = 3
    /\ Len(transcodes) = 2
    /\ transcodes[1].rc = 0
    /\ transcodes[2].rc # 0

\* C5: when a call that created the temporary directory has ended, the
\* directory and every file in it are gone.
C5_TempDirRemoved ==
    (Ended /\ td # "none") => (td = "removed" /\ tdFiles = {})

C5_Witness ==
    /\ pc = "failed"
    /\ failure = "ConcatError"
    /\ Len(norm_paths) >= 2
    /\ td = "removed"

\* C6: without --fast, the i-th transcoder run reads the i-th clip of the
\* play order and writes the i-th intermediate file, norm_paths lists the
\* intermediate files of the successful runs in that order, and the joiner
\* is started only when every clip of the play order has been normalized,
\* on exactly norm_paths.
C6_NormalizeInOrderThenJoin ==
    ~args.fast =>
        /\ \A i \in DOMAIN transcodes :
              /\ i <= Len(ordered)
              /\ transcodes[i].src = ordered[i]
              /\ transcodes[i].dst = Path("td", Name(i - 1, ".mp4"))
        /\ \A i \in DOMAIN norm_paths :
              /\ i <= Len(transcodes)
              /\ transcodes[i].rc = 0
              /\ norm_paths[i] = transcodes[i].dst
        /\ \A j \in Range(joining) \cup Range(joins) :
              /\ Len(norm_paths) = Len(ordered)
              /\ Len(transcodes) = Len(ordered)
              /\ j.lines = norm_paths

C6_Witness ==
    /\ ~args.fast
    /\ joining # <<>>
    /\ Len(ordered) = 3
    /\ Len(joining[1].lines) = 3

\* C7: with --fast the transcoder is never run and no temporary directory
\* or intermediate file is made; the joiner is started at most once, on the
\* play order itself, and exactly once in a call that has built the play
\* order (so has reached the --fast branch) and ended.
C7_FastModeJoinsSources ==
    args.fast =>
        /\ transcodes = <<>>
        /\ td = "none" /\ tdFiles = {} /\ norm_paths = <<>>
        /\ JoinerCalls <= 1
        /\ \A j \in Range(joining) \cup Range(joins) : j.lines = ordered /\ j.output = output
        /\ (Ended /\ Planned) => Len(joins) = 1

\* C8: a manifest file exists only while the one joiner run that reads it
\* is running; once that run has exited, with any status, the file is gone,
\* and no manifest file is left when the call has ended.
C8_ManifestScoped ==
    /\ \A m \in manifests :
          /\ joining # <<>>
          /\ joining[1].manifest = m.path
          /\ joining[1].lines = m.lines
          /\ \A j \in Range(joins) : j.manifest # m.path
    /\ \A j \in Range(joining) : \E m \in manifests : m.path = j.manifest
    /\ \A i \in DOMAIN joins :
          /\ ~Exists(joins[i].manifest)
          /\ \A k \in DOMAIN joins : k # i => joins[k].manifest # joins[i].manifest
    /\ Ended => manifests = {}

\* The size has been resolved (lines 205-212 have run).
Sized == output # NoPath

\* C9: when --width and --height are both supplied, the size is exactly
\* the supplied pair and probe_size is not called; when one is supplied,
\* that dimension is the supplied value and the other the probed one.
C9_SuppliedSizeVerbatim ==
    Sized =>
        /\ (args.width # None /\ args.height # None) =>
              (size = <<args.width[1], args.height[1]>> /\ probes = <<>>)
        /\ (args.width # None /\ args.height = None) =>
              (Len(probes) = 1 /\ size = <<args.width[1], probes[1].wh[2]>>)
        /\ (args.width = None /\ args.height # None) =>
              (Len(probes) = 1 /\ size = <<probes[1].wh[1], args.height[1]>>)

\* C10 as claimed: no unavailable or failing probe tool ever ends the call,
\* and after a failed probe every dimension that was not supplied is the
\* default.
C10_ProbeFailureNeverAborts ==
    /\ failure # "ToolUnavailableError:ffprobe"
    /\ \A i \in DOMAIN probes :
          ProbeFailed(probes[i].kind) =>
              /\ args.width = None => size[1] = 1920
              /\ args.height = None => size[2] = 1080

\* C10 as amended: a probe_size call whose ffprobe run fails in any way
\* (the tool cannot be started, non-zero exit, output without "x", output
\* that does not parse) does not end the call: every dimension that was not
\* supplied is 1920 (width) or 1080 (height) and main() goes on to the
\* concat or the normalize pass, where only a later step (transcoder,
\* manifest, joiner) can still fail the call.  A probe tool that check_ffmpeg finds missing ends the
\* call with status 1 before any probe.
C10_ProbeSizeFailureFallsBack ==
    /\ \A i \in DOMAIN probes :
          ProbeFailed(probes[i].kind) =>
              /\ probes[i].wh = <<1920, 1080>>
              /\ args.width = None => size[1] = 1920
              /\ args.height = None => size[2] = 1080
              /\ pc \in {"fast", "mktemp", "normalize", "joining", "done", "failed"}
              /\ pc = "failed" =>
                    failure \in {"TranscodeError", "ManifestWriteError", "ConcatError"}
    /\ failure = "ToolUnavailableError:ffprobe" =>
          (pc = "failed" /\ exitCode = Some(1) /\ probes = <<>>)

C10_Witness ==
    /\ pc = "done"
    /\ Len(probes) = 1
    /\ probes[1].kind = "notfound"
    /\ args.width = None /\ args.height # None
    /\ size[1] = 1920

\* The failure kinds the exit status is to tell apart.
KindOf(why) ==
    CASE why = "" -> "success"
      [] why = "NotFoundError" -> "folder"
      [] why = "EmptyInputError" -> "empty"
      [] why = "StartNotFoundError" -> "start"
      [] why \in {"TranscodeError", "ConcatError"} -> "tool"
      [] OTHER -> "other"

\* C11 as claimed: status 0 only on success, and the status of an ended
\* call tells its failure kind: a status that one kind produces (2 folder
\* not found, 3 no clips, 4 start not found) is produced by no other kind,
\* so a tool failure never ends with 2, 3 or 4.
C11_StatusIdentifiesOutcome ==
    Ended =>
        /\ exitCode = Some(0) <=> KindOf(failure) = "success"
        /\ exitCode = Some(2) => KindOf(failure) = "folder"
        /\ exitCode = Some(3) => KindOf(failure) = "empty"
        /\ exitCode = Some(4) => KindOf(failure) = "start"

\* C11 as amended: status 0 only on success; folder not found, no clips
\* and start not found end with 2, 3 and 4; a failing transcoder or joiner
\* ends the call with its own non-zero status, whatever that is; a missing
\* tool and an error outside the tools end it with 1.
C11_StatusPerFailure ==
    Ended =>
        /\ exitCode # None
        /\ exitCode = Some(0) <=> (pc = "done" /\ failure = "")
        /\ failure = "NotFoundError" => exitCode = Some(2)
        /\ failure = "EmptyInputError" => exitCode = Some(3)
        /\ failure = "StartNotFoundError" => exitCode = Some(4)
        /\ failure = "TranscodeError" =>
              exitCode = Some(transcodes[Len(transcodes)].rc)
        /\ failure = "ConcatError" => exitCode = Some(joins[Len(joins)].rc)
        /\ KindOf(failure) = "other" => exitCode = Some(1)

\* A transcoder failure that ends the call with the status of "folder not
\* found".
C11_Witness ==
    /\ pc = "failed"
    /\ failure = "TranscodeError"
    /\ transcodes[Len(transcodes)].rc = 2
    /\ exitCode = Some(2)

\* ------------------------------------------------ the manifest as text
\* The characters a path is made of: a letter, the single quote, the
\* backslash, the space and the line break (all legal in a POSIX file name).
Chars == {"a", "'", "\\", " ", "\n"}
Spaces == {" "}

MaxChars == 3

\* Non-empty paths of at most n characters, and the non-empty lists of
\* them holding at most n characters in all.
Texts(n) == UNION {[1..k -> Chars] : k \in 1..n}

RECURSIVE ListsWithin(_)
ListsWithin(n) ==
    {<<>>} \cup UNION {{<<p>> \o l : l \in ListsWithin(n - Len(p))} : p \in Texts(n)}

FileLists == ListsWithin(MaxChars) \ {<<>>}

\* str.replace("'", "'\\''"): every single quote becomes the four
\* characters ' \ ' '.  (replace_nothing: the path is written as it is.)
replace_nothing(s) == s

RECURSIVE replace(_)
replace(s) ==
    IF s = <<>> THEN <<>>
    ELSE (IF Head(s) = "'" THEN <<"'", "\\", "'", "'">> ELSE <<Head(s)>>)
         \o replace(Tail(s))

\* One tf.write: file '<escaped path>' and a line break.
ManifestLine(p) == <<"f", "i", "l", "e", " ", "'">> \o replace(p) \o <<"'", "\n">>

RECURSIVE ManifestText(_)
ManifestText(list) ==
    IF list = <<>> THEN <<>> ELSE ManifestLine(Head(list)) \o ManifestText(Tail(list))

\* The joiner (ffmpeg -f concat) reads the manifest line by line.
RECURSIVE SplitLines(_, _)
SplitLines(s, line) ==
    IF s = <<>> THEN (IF line = <<>> THEN <<>> ELSE <<line>>)
    ELSE IF Head(s) = "\n" THEN <<line>> \o SplitLines(Tail(s), <<>>)
    ELSE SplitLines(Tail(s), Append(line, Head(s)))

RECURSIVE SkipSpaces(_)
SkipSpaces(s) ==
    IF s # <<>> /\ Head(s) \in Spaces THEN SkipSpaces(Tail(s)) ELSE s

RECURSIVE Keyword(_)
Keyword(s) ==
    IF s = <<>> \/ Head(s) \in Spaces THEN <<>> ELSE <<Head(s)>> \o Keyword(Tail(s))

\* The argument of a directive: outside quotes a backslash takes the next
\* character as it is and a space ends the argument; between single quotes
\* every character, the backslash included, stands for itself.
RECURSIVE Token(_, _)
Token(s, quoted) ==
    IF s = <<>> THEN <<>>
    ELSE IF quoted
         THEN IF Head(s) = "'" THEN Token(Tail(s), FALSE)
              ELSE <<Head(s)>> \o Token(Tail(s), TRUE)
    ELSE IF Head(s) \in Spaces THEN <<>>
    ELSE IF Head(s) = "\\" /\ Len(s) > 1 THEN <<s[2]>> \o Token(Tail(Tail(s)), FALSE)
    ELSE IF Head(s) = "'" THEN Token(Tail(s), TRUE)
    ELSE <<Head(s)>> \o Token(Tail(s), FALSE)

\* Empty lines and comments are skipped; a line that does not start with
\* the file directive, or names no file, stops the joiner with an error.
RECURSIVE ReadLines(_)
ReadLines(lines) ==
    IF lines = <<>> THEN [ok |-> TRUE, files |-> <<>>]
    ELSE LET cur == SkipSpaces(Head(lines))
             kw == Keyword(cur)
             arg == Token(SkipSpaces(SubSeq(cur, Len(kw) + 1, Len(cur))), FALSE)
             rest == ReadLines(Tail(lines))
         IN  IF kw = <<>> \/ Head(kw) = "#" THEN rest
             ELSE IF kw # <<"f", "i", "l", "e">> \/ arg = <<>>
                  THEN [ok |-> FALSE, files |-> <<>>]
             ELSE [ok |-> rest.ok, files |-> <<arg>> \o rest.files]

ReadManifest(s) == ReadLines(SplitLines(s, <<>>))

\* concat_via_list writes the manifest for its file_list ...
WriteManifest ==
    /\ pc = "manifest"
    /\ manifest_text' = ManifestText(path_texts)
    /\ pc' = "written"
    /\ UNCHANGED <<folderIsDir, entries, cwdIsFolder, cwdFiles, rng, invocations, prev,
                   path_texts, joiner_read, call>>

\* ... and the joiner reads it.
JoinerReads ==
    /\ pc = "written"
    /\ joiner_read' = ReadManifest(manifest_text)
    /\ pc' = "read"
    /\ UNCHANGED <<folderIsDir, entries, cwdIsFolder, cwdFiles, rng, invocations, prev,
                   path_texts, manifest_text, call>>

InitManifest ==
    /\ folderIsDir = TRUE /\ entries = {} /\ cwdIsFolder = FALSE /\ cwdFiles = {}
    /\ rng = 0 /\ invocations = 1 /\ prev = <<>>
    /\ args = NoArgs
    /\ clips = <<>> /\ start_path = NoPath /\ ordered = <<>>
    /\ size = <<0, 0>> /\ output = NoPath
    /\ probes = <<>>
    /\ td = "none" /\ tdFiles = {} /\ norm_paths = <<>>
    /\ manifests = {} /\ joining = <<>>
    /\ transcodes = <<>> /\ joins = <<>>
    /\ exitCode = None /\ failure = ""
    /\ pc = "manifest"
    /\ path_texts \in FileLists
    /\ manifest_text = <<>>
    /\ joiner_read = NoRead

NextManifest == WriteManifest \/ JoinerReads

SpecManifest == InitManifest /\ [][NextManifest]_vars

HasLineBreak(list) == \E i \in 1..Len(list) : \E j \in 1..Len(list[i]) : list[i][j] = "\n"

RoundTrip ==
    /\ Len(SplitLines(manifest_text, <<>>)) = Len(path_texts)
    /\ \A i \in 1..Len(path_texts) :
          LET line == SplitLines(manifest_text, <<>>)[i]
          IN  /\ SubSeq(line, 1, 6) = <<"f", "i", "l", "e", " ", "'">>
              /\ line[Len(line)] = "'"
    /\ joiner_read = [ok |-> TRUE, files |-> path_texts]

NoEligibleClip == ~\E e \in entries : e.kind = "file" /\ Lower(e.name.suffix) = ".mp4"

TranscodersOk == \A i \in 1..Len(transcodes) : transcodes[i].rc = 0
JoinersOk == \A i \in 1..Len(joins) : joins[i].rc = 0
ProbesOk == \A i \in 1..Len(probes) : ~ProbeFailed(probes[i].kind)

SuccessIffToolsOk ==
    /\ Ended =>
          (exitCode = Some(0) <=>
              /\ Len(joins) = 1 /\ JoinersOk
              /\ TranscodersOk
              /\ ~args.fast => Len(transcodes) = Len(ordered))
    /\ Ended => (pc = "done" <=> exitCode = Some(0))

\* C14 as claimed: a call reports success exactly when the joiner ran and
\* exited with 0 and, in the normal path, every transcoder run before it
\* exited with 0; and after the failure of any external tool, the probe
\* included, the call does nothing but fail.
C14_NoToolFailureSurvives ==
    /\ SuccessIffToolsOk
    /\ ~(TranscodersOk /\ JoinersOk /\ ProbesOk) => pc = "failed"

\* C14 as amended: a call reports success exactly when the joiner ran and
\* exited with 0 and, in the normal path, every transcoder run before it
\* exited with 0; after the failure of a transcoder or of the joiner the
\* call does nothing but fail.  (A failing probe is survived.)
C14_SuccessIffJoinerAndTranscodersOk ==
    /\ SuccessIffToolsOk
    /\ ~(TranscodersOk /\ JoinersOk) => (pc = "failed" /\ exitCode \notin {None, Some(0)})

\* A successful normal run of three clips whose probe had failed.
C14_Witness ==
    /\ pc = "done" /\ exitCode = Some(0)
    /\ ~args.fast /\ Len(ordered) = MaxStem /\ Len(transcodes) = MaxStem
    /\ Len(joins) = 1 /\ joins[1].rc = 0
    /\ ~ProbesOk

\* C15: no step is repeated: the i-th transcoder run is the one of the
\* i-th position of the play order, so each position has at most one; at
\* most one probe, at most one joiner run, and the output is written at
\* most once.
C15_NoStepRetried ==
    /\ Len(transcodes) <= Len(ordered)
    /\ \A i \in 1..Len(transcodes) :
          /\ transcodes[i].src = ordered[i]
          /\ \A j \in 1..Len(transcodes) : transcodes[j].dst = transcodes[i].dst => j = i
    /\ Len(probes) <= 1
    /\ JoinerCalls <= 1
    /\ Cardinality({i \in 1..Len(joins) : joins[i].wrote}) <= 1

\* A failed run that had every step once: a probe, a transcoder run for each
\* of three positions, and a joiner run that exited non-zero.
C15_Witness ==
    /\ pc = "failed" /\ failure = "ConcatError"
    /\ Len(probes) = 1
    /\ Len(ordered) = MaxStem /\ Len(transcodes) = MaxStem
    /\ Len(joins) = 1

\* C16 as claimed: the generator that shuffles belongs to the call, so no
\* step of any call changes the state of the process-wide generator of the
\* random module.
C16_GeneratorNotProcessWide == [][rng' = rng]_vars

\* ------------------------------------------------------ the run lifecycle
\* main() is sequential code: while the call has not ended and the tools
\* terminate, its next step is taken.
SpecLive == Init /\ [][Next]_vars /\ WF_vars(Next)

\* The lifecycle state a position of main() belongs to.
Phase(at, fast) ==
    CASE at \in {"parse", "folder", "tools", "enumerate", "start"} -> "Enumerating"
      [] at = "plan" -> "PlanningOrder"
      [] at = "size" -> "ResolvingProfile"
      [] at = "fast" -> "FastConcat"
      [] at \in {"mktemp", "normalize"} -> "Normalizing"
      [] at = "joining" -> IF fast THEN "FastConcat" ELSE "Concatenating"
      [] at = "done" -> "Done"
      [] OTHER -> "Failed"

\* The transitions of the lifecycle; the states that take several steps of
\* main() may be stayed in, the terminal states are never left.
Transitions ==
    {<<"Enumerating", "Enumerating">>, <<"Enumerating", "PlanningOrder">>,
     <<"PlanningOrder", "ResolvingProfile">>,
     <<"ResolvingProfile", "FastConcat">>, <<"ResolvingProfile", "Normalizing">>,
     <<"FastConcat", "FastConcat">>, <<"FastConcat", "Done">>,
     <<"Normalizing", "Normalizing">>, <<"Normalizing", "Concatenating">>,
     <<"Concatenating", "Done">>}
    \cup {<<s, "Failed">> : s \in {"Enumerating", "PlanningOrder", "ResolvingProfile",
                                   "FastConcat", "Normalizing", "Concatenating"}}

StepAllowed == <<Phase(pc, args.fast), Phase(pc', args'.fast)>> \in Transitions

OncePerClip ==
    /\ Len(transcodes) <= Len(ordered)
    /\ \A i, j \in 1..Len(transcodes) : transcodes[i].src = transcodes[j].src => i = j

\* C17: every step of a call is one of the lifecycle transitions
\* Enumerating -> PlanningOrder -> ResolvingProfile -> (FastConcat |
\* Normalizing -> Concatenating) -> Done, or goes to Failed; the call
\* eventually is in Done or Failed and stays there; and no clip ever has
\* more than one transcoder run.
C17_RunLifecycle ==
    /\ [][StepAllowed]_vars
    /\ <>[]Ended
    /\ []OncePerClip

\* A fast run that went Enumerating, PlanningOrder, ResolvingProfile,
\* FastConcat and is Done.
C17_Witness ==
    /\ pc = "done" /\ args.fast
    /\ Len(ordered) = MaxStem /\ transcodes = <<>> /\ Len(joins) = 1

\* C18 as claimed: no destination a tool is given, the dst of a transcoder
\* run or the output of the joiner, is a clip of the play order, whatever
\* the --output argument.
C18_NeverWritesSource ==
    /\ \A i \in 1..Len(transcodes) : transcodes[i].dst \notin Range(ordered)
    /\ \A i \in 1..Len(joining) : joining[i].output \notin Range(ordered)
    /\ \A i \in 1..Len(joins) : joins[i].output \notin Range(ordered)

\* --------------------------------------------------- running it again
\* The same command line given twice, from inside the folder or not.
RerunArgs ==
    [start : {[up |-> FALSE, name |-> ClipName(1)]}, seed : SeedArgs \ {None},
     fast : BOOLEAN, width : {None}, height : {None}, output : {OutName}]

InitRerun == InitOf({FullFolder}, BOOLEAN)

NextRerun ==
    \/ ParseArgs(RerunArgs)
    \/ CheckFolder
    \/ check_ffmpeg
    \/ EnumerateClips
    \/ ResolveStart
    \/ PlanOrder
    \/ ResolveSize({ProbeOk})
    \/ FastConcat
    \/ MakeTempDir
    \/ NormalizeClip
    \/ Concatenate
    \/ JoinerExits
    \/ Reinvoke

SpecRerun == InitRerun /\ [][NextRerun]_vars

\* C19 as claimed: after a successful call, a later call enumerates the
\* same set of clips, and when it has the same start, output and seed it
\* builds the same play order.
C19_RerunSameClips ==
    (prev # <<>> /\ prev[1].ok) =>
        /\ clips # <<>> => Range(clips) = Range(prev[1].clips)
        /\ (/\ Planned /\ Sized
            /\ args.seed = prev[1].seed
            /\ start_path = prev[1].start
            /\ output = prev[1].output)
           => ordered = prev[1].ordered

====
